---- MODULE Spec2Model ----
(***************************************************************************)
(* A model of python/bf3.py: the Interpreter class of a brainfuck          *)
(* interpreter.  parse() folds the cleaned source into a tree of counted   *)
(* tokens and loop bodies; execute() walks that tree against the tape.     *)
(*                                                                         *)
(* A source is a sequence of one-character strings.  A compiled node is a  *)
(* record: a counted token has token in {IncrPtr, Incr, StdOut, StdIn} and *)
(* an empty body; a loop (a Python list in the source) has token "Loop"    *)
(* and its body.  The recursion of execute() is an explicit stack of       *)
(* frames, one per active call.  Python integers are unbounded, so no      *)
(* width is imposed on counts; cell values are reduced as incr() does.     *)
(***************************************************************************)
EXTENDS Integers, Sequences, FiniteSets, TLC

(***************************************************************************)
(* Bounds of the model.                                                    *)
(***************************************************************************)
\* longest source enumerated exhaustively
MaxLen == 3
\* largest initial tape length (argument -m)
MaxMSize == 2
\* longest input stream
MaxInput == 2
\* the tape is not grown beyond this length
MaxMem == 6
\* the output is not extended beyond this length
MaxOut == 4
\* the count of started loop bodies saturates here
MaxRuns == 16
\* most steps of a run of one node per symbol that is compared
MaxFuel == 32
\* largest a and b of the transfer programs '+'*a '>' '+'*b '[<+>-]'
MaxCount == 15

\* argparse choices of -c, without 16 and 32 (the cell values of a
\* program such as "-[-]" would make 2^16 and 2^32 states each)
CellSizes == {4, 8}

\* character codes an input stream is made of
InputCodes == {0, 65}

Symbols == {">", "<", "+", "-", ".", ",", "[", "]"}

(***************************************************************************)
(* Tokens and compiled nodes.                                              *)
(***************************************************************************)
Token(ch) ==
    CASE ch \in {">", "<"} -> "IncrPtr"
      [] ch \in {"+", "-"} -> "Incr"
      [] ch = "."          -> "StdOut"
      [] ch = ","          -> "StdIn"
      [] ch = "["          -> "LoopStart"
      [] ch = "]"          -> "LoopEnd"

CountedToken(t, c) == [token |-> t, count |-> c, body |-> <<>>]

LoopNode(b) == [token |-> "Loop", count |-> 0, body |-> b]

IsList(node) == node.token = "Loop"

\* every symbol counted as +1
SignOne(ch) == 1

\* -1 if ch in "<-" else 1
Sign(ch) == IF ch \in {"<", "-"} THEN -1 ELSE 1

\* 2 << (c_size - 1)
MaxInt(c_size) == 2 ^ c_size

(***************************************************************************)
(* parse(): the fold of a run.  p is the 0-based cursor.                   *)
(***************************************************************************)
\* a fold of identical characters only
SameChar(a, b) == a = b

SameToken(a, b) == Token(a) = Token(b)

RECURSIVE RunEnd(_, _)
RunEnd(prog, p) ==
    IF p < Len(prog) - 1 /\ SameToken(prog[p + 1], prog[p + 2])
    THEN RunEnd(prog, p + 1)
    ELSE p

RECURSIVE RunCount(_, _, _)
RunCount(prog, p, q) ==
    IF q = p THEN Sign(prog[p + 1])
    ELSE RunCount(prog, p, q - 1) + Sign(prog[q + 1])

\* every finished node appended to the top level
AttachFlat(stk, toks, node) == [stk |-> stk, toks |-> Append(toks, node)]

\* append a finished node to the innermost open loop, or to the top level
Attach(stk, toks, node) ==
    IF stk # <<>>
    THEN [stk |-> [stk EXCEPT ![Len(stk)] = Append(@, node)], toks |-> toks]
    ELSE [stk |-> stk, toks |-> Append(toks, node)]

(***************************************************************************)
(* Tape operations.                                                        *)
(***************************************************************************)
\* a Python list index: -len <= i < len, negative ones count from the end
ValidIndex(mem, i) == -Len(mem) <= i /\ i < Len(mem)

Slot(mem, i) == IF i >= 0 THEN i + 1 ELSE Len(mem) + i + 1

Zeros(n) == [k \in 1..n |-> 0]

\* a growth that allocates a fresh tape
GrowReset(mem, ptr) ==
    IF ptr = Len(mem) THEN Zeros(Len(mem) + (Len(mem) \div 2)) ELSE mem

\* a growth that doubles the tape
GrowDouble(mem, ptr) ==
    IF ptr = Len(mem) THEN mem \o Zeros(Len(mem)) ELSE mem

\* incr_ptr: the tape after the pointer has become ptr
Grow(mem, ptr) ==
    IF ptr = Len(mem) THEN mem \o Zeros(Len(mem) \div 2) ELSE mem

\* the truncating remainder of C, negative for a negative sum
IncrValueTrunc(v, count, c_size) ==
    IF v + count < 0
    THEN -((-(v + count)) % MaxInt(c_size))
    ELSE (v + count) % MaxInt(c_size)

\* incr: the new value of a cell
IncrValue(v, count, c_size) == (v + count) % MaxInt(c_size)

\* a loop that runs its body before the first test
LoopCondAlways(v) == TRUE

\* while self.memory[self.data_ptr] != 0
LoopCond(v) == v # 0

Min(a, b) == IF a < b THEN a ELSE b

\* sys.stdin.read(count): up to count characters, fewer at end of input
ReadLen(inp, count) == Min(count, Len(inp))

\* ord(s): defined for a string of exactly one character
OrdDefined(n) == n = 1

Ord(inp) == inp[1]

\* a write that ignores the count
WrittenOnce(mem, ptr, count) == <<mem[Slot(mem, ptr)]>>

\* stdout: chr(self.memory[self.data_ptr]), count times
Written(mem, ptr, count) == [k \in 1..count |-> mem[Slot(mem, ptr)]]

(***************************************************************************)
(* Sources.                                                                *)
(***************************************************************************)
Sources == UNION {[1..n -> Symbols] : n \in 0..MaxLen}

Rep(ch, n) == [k \in 1..n |-> ch]

Transfer(a, b) ==
    Rep("+", a) \o <<">">> \o Rep("+", b) \o <<"[", "<", "+", ">", "-", "]">>

Examples ==
    { <<"[", "[", "]", "]">>,
      <<"[", "]", "[", "]">>,
      <<"+", "[", "+", "]", "+">>,
      <<"+", "[", ">", "+", "]">>,
      <<"+", "[", ".", "]">>,
      <<",", ",", "[", ",", "]">>,
      <<"-", "[", "+", "]">> }

\* 65 '+' and one '.'
OutputExample == Rep("+", 65) \o <<".">>

Inputs == UNION {[1..n -> InputCodes] : n \in 0..MaxInput}

\* only ',' reads the input: a source without ',' runs the same on every
\* input stream, and is given the empty one
InputsFor(prog) ==
    IF \E k \in 1..Len(prog) : prog[k] = "," THEN Inputs ELSE {<<>>}

VARIABLES
    program,      \* self.program
    cell_size,    \* self.cell_size
    memory,       \* self.memory
    data_ptr,     \* self.data_ptr
    instr_ptr,    \* self.instr_ptr
    stack,        \* self.stack
    c_tokens,     \* self.c_tokens
    frames,       \* the active calls of execute(): list and position of each
    input,        \* what is left on sys.stdin
    output,       \* what was written to sys.stdout
    pc,           \* "parse", "execute", "done" or "error"
    err,          \* the exception raised, "" if none
    body_runs,    \* how many loop bodies were started (saturates at MaxRuns)
    init_size,    \* the argument m_size of __init__
    init_input    \* sys.stdin as it was when the run began

vars == <<program, cell_size, init_size, init_input, memory, data_ptr,
          instr_ptr, stack, c_tokens, frames, input, output, pc, err,
          body_runs>>

Construct(prog, c_size, m_size, inp) ==
    /\ program = prog
    /\ cell_size = c_size
    /\ init_size = m_size
    /\ init_input = inp
    /\ memory = Zeros(m_size)
    /\ data_ptr = 0
    /\ instr_ptr = 0
    /\ stack = <<>>
    /\ c_tokens = <<>>
    /\ frames = <<>>
    /\ input = inp
    /\ output = <<>>
    /\ pc = "parse"
    /\ err = ""
    /\ body_runs = 0

\* a run of one of the sources srcs, on every configuration and input
Start(srcs) ==
    \E prog \in srcs, c_size \in CellSizes, m_size \in 1..MaxMSize :
        \E inp \in InputsFor(prog) : Construct(prog, c_size, m_size, inp)

\* a run of a transfer program whose sum fits a cell
StartTransfer ==
    \E a \in 0..MaxCount, b \in 0..MaxCount, c_size \in CellSizes,
       m_size \in 1..(MaxMSize + 1) :
        /\ a + b < MaxInt(c_size)
        /\ Construct(Transfer(a, b), c_size, m_size, <<>>)

Init == Start(Sources \cup Examples \cup {OutputExample}) \/ StartTransfer

\* the runs whose termination is checked: the transfer programs, with the
\* examples and the sources of one symbol
InitTermination ==
    Start({src \in Sources : Len(src) <= 1} \cup Examples) \/ StartTransfer

(***************************************************************************)
(* parse(): one action per iteration of its outer loop.                    *)
(***************************************************************************)
execVars == <<memory, data_ptr, frames, input, output, body_runs>>

Raise(e) == pc' = "error" /\ err' = e

ParseLoopStart ==
    /\ pc = "parse"
    /\ instr_ptr < Len(program)
    /\ Token(program[instr_ptr + 1]) = "LoopStart"
    /\ stack' = Append(stack, <<>>)
    /\ instr_ptr' = instr_ptr + 1
    /\ UNCHANGED <<program, cell_size, init_size, init_input, c_tokens, pc,
                   err, execVars>>

ParseLoopEnd ==
    /\ pc = "parse"
    /\ instr_ptr < Len(program)
    /\ Token(program[instr_ptr + 1]) = "LoopEnd"
    /\ stack # <<>>
    /\ LET loop == LoopNode(stack[Len(stack)])
           r == Attach(SubSeq(stack, 1, Len(stack) - 1), c_tokens, loop)
       IN  /\ stack' = r.stk
           /\ c_tokens' = r.toks
    /\ instr_ptr' = instr_ptr + 1
    /\ UNCHANGED <<program, cell_size, init_size, init_input, pc, err, execVars>>

\* an unmatched ']' that is skipped
ParseLoopEndSkipped ==
    /\ pc = "parse"
    /\ instr_ptr < Len(program)
    /\ Token(program[instr_ptr + 1]) = "LoopEnd"
    /\ stack = <<>>
    /\ instr_ptr' = instr_ptr + 1
    /\ UNCHANGED <<program, cell_size, init_size, init_input, stack,
                   c_tokens, pc, err, execVars>>

\* an unmatched ']' reported after the cursor has moved past it
ParseLoopEndErrorLate ==
    /\ pc = "parse"
    /\ instr_ptr < Len(program)
    /\ Token(program[instr_ptr + 1]) = "LoopEnd"
    /\ stack = <<>>
    /\ Raise("no matching open bracket")
    /\ instr_ptr' = instr_ptr + 1
    /\ UNCHANGED <<program, cell_size, init_size, init_input, stack,
                   c_tokens, execVars>>

\* lines 59-60 and 66-68; the position reported is instr_ptr
ParseLoopEndError ==
    /\ pc = "parse"
    /\ instr_ptr < Len(program)
    /\ Token(program[instr_ptr + 1]) = "LoopEnd"
    /\ stack = <<>>
    /\ Raise("no matching open bracket")
    /\ UNCHANGED <<program, cell_size, init_size, init_input, instr_ptr,
                   stack, c_tokens, execVars>>

\* a fold whose characters are scanned again
ParseCountedRescan ==
    /\ pc = "parse"
    /\ instr_ptr < Len(program)
    /\ Token(program[instr_ptr + 1]) \notin {"LoopStart", "LoopEnd"}
    /\ LET q == RunEnd(program, instr_ptr)
           c_token == CountedToken(Token(program[instr_ptr + 1]),
                                   RunCount(program, instr_ptr, q))
           r == Attach(stack, c_tokens, c_token)
       IN  /\ stack' = r.stk
           /\ c_tokens' = r.toks
           /\ instr_ptr' = instr_ptr + 1
    /\ UNCHANGED <<program, cell_size, init_size, init_input, pc, err, execVars>>

\* lines 69-80: a counted token, with the fold of its run
ParseCounted ==
    /\ pc = "parse"
    /\ instr_ptr < Len(program)
    /\ Token(program[instr_ptr + 1]) \notin {"LoopStart", "LoopEnd"}
    /\ LET q == RunEnd(program, instr_ptr)
           c_token == CountedToken(Token(program[instr_ptr + 1]),
                                   RunCount(program, instr_ptr, q))
           r == Attach(stack, c_tokens, c_token)
       IN  /\ stack' = r.stk
           /\ c_tokens' = r.toks
           /\ instr_ptr' = q + 1
    /\ UNCHANGED <<program, cell_size, init_size, init_input, pc, err, execVars>>

\* the end of the scan without the test of the stack
ParseEndUnchecked ==
    /\ pc = "parse"
    /\ instr_ptr >= Len(program)
    /\ pc' = "execute"
    /\ frames' = <<[c_tokens |-> c_tokens, i |-> 1]>>
    /\ UNCHANGED <<program, cell_size, init_size, init_input, instr_ptr,
                   stack, c_tokens, err,
                   memory, data_ptr, input, output, body_runs>>

\* lines 53 and 82-83: the scan is over
ParseEnd ==
    /\ pc = "parse"
    /\ instr_ptr >= Len(program)
    /\ IF stack # <<>>
       THEN /\ Raise("no matching closed bracket")
            /\ UNCHANGED frames
       ELSE /\ pc' = "execute"
            /\ frames' = <<[c_tokens |-> c_tokens, i |-> 1]>>
            /\ UNCHANGED err
    /\ UNCHANGED <<program, cell_size, init_size, init_input, instr_ptr,
                   stack, c_tokens,
                   memory, data_ptr, input, output, body_runs>>

(***************************************************************************)
(* execute(): one action per node visited, and one per return of a call.   *)
(***************************************************************************)
parseVars == <<program, cell_size, init_size, init_input, instr_ptr, stack,
               c_tokens>>

Top == frames[Len(frames)]

\* a node is left to visit in the innermost call
AtNode == pc = "execute" /\ Top.i <= Len(Top.c_tokens)

Node == Top.c_tokens[Top.i]

\* the for loop of the innermost call moves to the next node
Advance(frs) == [frs EXCEPT ![Len(frs)].i = @ + 1]

\* lines 87-89: the test of a loop node, before every run of its body
ExecLoop ==
    /\ AtNode
    /\ IsList(Node)
    /\ IF ~ValidIndex(memory, data_ptr)
       THEN /\ Raise("IndexError")
            /\ UNCHANGED <<frames, body_runs>>
       ELSE IF LoopCond(memory[Slot(memory, data_ptr)])
       THEN /\ frames' = Append(frames, [c_tokens |-> Node.body, i |-> 1])
            /\ body_runs' = Min(body_runs + 1, MaxRuns)
            /\ UNCHANGED <<pc, err>>
       ELSE /\ frames' = Advance(frames)
            /\ UNCHANGED <<pc, err, body_runs>>
    /\ UNCHANGED <<parseVars, memory, data_ptr, input, output>>

\* lines 90-91 and incr_ptr
ExecIncrPtr ==
    /\ AtNode
    /\ ~IsList(Node)
    /\ Node.token = "IncrPtr"
    /\ LET ptr == data_ptr + Node.count
       IN  /\ Len(Grow(memory, ptr)) <= MaxMem
           /\ data_ptr' = ptr
           /\ memory' = Grow(memory, ptr)
    /\ frames' = Advance(frames)
    /\ UNCHANGED <<parseVars, input, output, pc, err, body_runs>>

\* lines 92-93 and incr
ExecIncr ==
    /\ AtNode
    /\ ~IsList(Node)
    /\ Node.token = "Incr"
    /\ IF ~ValidIndex(memory, data_ptr)
       THEN /\ Raise("IndexError")
            /\ UNCHANGED <<memory, frames>>
       ELSE /\ memory' = [memory EXCEPT ![Slot(memory, data_ptr)] =
                              IncrValue(@, Node.count, cell_size)]
            /\ frames' = Advance(frames)
            /\ UNCHANGED <<pc, err>>
    /\ UNCHANGED <<parseVars, data_ptr, input, output, body_runs>>

\* lines 94-95 and stdout
ExecStdOut ==
    /\ AtNode
    /\ ~IsList(Node)
    /\ Node.token = "StdOut"
    /\ Len(output) + Node.count <= MaxOut
    /\ IF Node.count > 0 /\ ~ValidIndex(memory, data_ptr)
       THEN /\ Raise("IndexError")
            /\ UNCHANGED <<output, frames>>
       ELSE /\ output' = output \o Written(memory, data_ptr, Node.count)
            /\ frames' = Advance(frames)
            /\ UNCHANGED <<pc, err>>
    /\ UNCHANGED <<parseVars, memory, data_ptr, input, body_runs>>

\* an end of input that leaves the cell as it is and goes on
ExecStdInLenient ==
    /\ AtNode
    /\ ~IsList(Node)
    /\ Node.token = "StdIn"
    /\ LET n == ReadLen(input, Node.count)
       IN  /\ input' = SubSeq(input, n + 1, Len(input))
           /\ IF n = 0
              THEN /\ frames' = Advance(frames)
                   /\ UNCHANGED <<memory, pc, err>>
              ELSE IF ~OrdDefined(n)
              THEN /\ Raise("TypeError")
                   /\ UNCHANGED <<memory, frames>>
              ELSE IF ~ValidIndex(memory, data_ptr)
              THEN /\ Raise("IndexError")
                   /\ UNCHANGED <<memory, frames>>
              ELSE /\ memory' = [memory EXCEPT ![Slot(memory, data_ptr)] =
                                     Ord(input)]
                   /\ frames' = Advance(frames)
                   /\ UNCHANGED <<pc, err>>
    /\ UNCHANGED <<parseVars, data_ptr, output, body_runs>>

\* lines 96-97 and stdin: read, then ord, then the store
ExecStdIn ==
    /\ AtNode
    /\ ~IsList(Node)
    /\ Node.token = "StdIn"
    /\ LET n == ReadLen(input, Node.count)
       IN  /\ input' = SubSeq(input, n + 1, Len(input))
           /\ IF ~OrdDefined(n)
              THEN /\ Raise("TypeError")
                   /\ UNCHANGED <<memory, frames>>
              ELSE IF ~ValidIndex(memory, data_ptr)
              THEN /\ Raise("IndexError")
                   /\ UNCHANGED <<memory, frames>>
              ELSE /\ memory' = [memory EXCEPT ![Slot(memory, data_ptr)] =
                                     Ord(input)]
                   /\ frames' = Advance(frames)
                   /\ UNCHANGED <<pc, err>>
    /\ UNCHANGED <<parseVars, data_ptr, output, body_runs>>

\* a loop that is an if: after its body the caller moves on
ExecReturnOnce ==
    /\ pc = "execute"
    /\ Top.i > Len(Top.c_tokens)
    /\ frames' = IF Len(frames) = 1 THEN <<>>
                 ELSE Advance(SubSeq(frames, 1, Len(frames) - 1))
    /\ pc' = IF Len(frames) = 1 THEN "done" ELSE pc
    /\ UNCHANGED <<parseVars, memory, data_ptr, input, output, err, body_runs>>

\* the for loop of a call is exhausted: the call returns, to the while of
\* line 88 or, for the outermost call, to run()
ExecReturn ==
    /\ pc = "execute"
    /\ Top.i > Len(Top.c_tokens)
    /\ frames' = SubSeq(frames, 1, Len(frames) - 1)
    /\ pc' = IF Len(frames) = 1 THEN "done" ELSE pc
    /\ UNCHANGED <<parseVars, memory, data_ptr, input, output, err, body_runs>>

Next ==
    \/ ParseLoopStart
    \/ ParseLoopEnd
    \/ ParseLoopEndError
    \/ ParseCounted
    \/ ParseEnd
    \/ ExecLoop
    \/ ExecIncrPtr
    \/ ExecIncr
    \/ ExecStdOut
    \/ ExecStdIn
    \/ ExecReturn

Spec == Init /\ [][Next]_vars

\* parse() called on its own, on every source; it reads neither the tape
\* nor the input
InitParse ==
    \E prog \in Sources \cup Examples, c_size \in CellSizes,
       m_size \in 1..MaxMSize : Construct(prog, c_size, m_size, <<>>)

ParseNext ==
    \/ ParseLoopStart
    \/ ParseLoopEnd
    \/ ParseLoopEndError
    \/ ParseCounted
    \/ ParseEnd

\* the while loop of parse() goes on until its condition fails or it raises
ParseSpec == InitParse /\ [][ParseNext]_vars /\ WF_vars(ParseNext)

\* the interpreter is one thread that runs until execute() returns or raises
FairSpec == InitTermination /\ [][Next]_vars /\ WF_vars(Next)

(***************************************************************************)
(* Properties.                                                             *)
(***************************************************************************)
SyntaxErrors == {"no matching open bracket", "no matching closed bracket"}

Parsed == pc # "parse" /\ err \notin SyntaxErrors

Cell == memory[Slot(memory, data_ptr)]

IsSource(src) == program = src

\* C1: every cell of the tape holds a value v with 0 <= v < 2^W, in every
\* state of a run, also after incr and after stdin have stored a value.
C1_CellsInRange ==
    \A k \in 1..Len(memory) : 0 <= memory[k] /\ memory[k] < MaxInt(cell_size)

\* C2: when incr_ptr leaves the pointer at index L, the length of the
\* tape (L = 1 included), the tape becomes at least L + 1 long, the added
\* cells are 0 and the cells below L keep their values.
C2_GrowthAtEnd ==
    [][(ExecIncrPtr /\ data_ptr' = Len(memory)) =>
          /\ Len(memory') >= Len(memory) + 1
          /\ \A k \in 1..Len(memory') :
                IF k <= Len(memory) THEN memory'[k] = memory[k]
                ELSE memory'[k] = 0]_vars

\* C3: after every incr_ptr that leaves the pointer non-negative, whatever
\* its count, the pointer is below the length of the tape, so that every
\* later access finds a cell.
C3_PointerInTape ==
    [][(ExecIncrPtr /\ data_ptr' >= 0) => data_ptr' < Len(memory')]_vars

SingleRun(src) ==
    /\ src # <<>>
    /\ Token(src[1]) \notin {"LoopStart", "LoopEnd"}
    /\ \A k \in 1..Len(src) : Token(src[k]) = Token(src[1])

\* the signed sum of the increments of the symbols lo..hi of src
NetCount(src, lo, hi) ==
    Cardinality({k \in lo..hi : src[k] \in {">", "+", ".", ","}})
      - Cardinality({k \in lo..hi : src[k] \in {"<", "-"}})

\* C5: parse of a source that is a single run of one operation kind yields
\* exactly one counted node of that kind, its count the signed sum of the
\* increments of the symbols, also when that sum is 0.
C5_FoldSingleRun ==
    (pc # "parse" /\ SingleRun(program)) =>
        /\ err \notin SyntaxErrors
        /\ c_tokens = <<[token |-> Token(program[1]),
                         count |-> NetCount(program, 1, Len(program)),
                         body  |-> <<>>]>>

\* "+-+" is parsed to one Incr node of count 1
C5_Witness ==
    /\ IsSource(<<"+", "-", "+">>)
    /\ pc = "execute"
    /\ Len(c_tokens) = 1
    /\ c_tokens[1].token = "Incr"
    /\ c_tokens[1].count = 1

\* number of '[' minus number of ']' among the first k symbols of src
Depth(src, k) ==
    Cardinality({j \in 1..k : src[j] = "["})
      - Cardinality({j \in 1..k : src[j] = "]"})

\* every ']' has an earlier unmatched '[' and every '[' a later ']'
Balanced(src) ==
    /\ \A k \in 1..Len(src) : Depth(src, k) >= 0
    /\ Depth(src, Len(src)) = 0

\* C6: parse fails with a syntax error if and only if the brackets of the
\* source are unbalanced.
C6_SyntaxErrorIffUnbalanced ==
    pc # "parse" => ((err \in SyntaxErrors) <=> ~Balanced(program))

\* "[[]" has failed after the whole scan
C6_Witness ==
    /\ IsSource(<<"[", "[", "]">>)
    /\ pc = "error"
    /\ err = "no matching closed bracket"
    /\ instr_ptr = 3

\* the ']' that closes the '[' at position i of a balanced source
MatchClose(src, i) ==
    CHOOSE j \in (i + 1)..Len(src) :
        /\ Depth(src, j) = Depth(src, i) - 1
        /\ \A k \in i..(j - 1) : Depth(src, k) >= Depth(src, i)

\* the last symbol of the run of one operation kind that starts at lo
RunStop(src, lo, hi) ==
    CHOOSE k \in lo..hi :
        /\ \A j \in lo..k : Token(src[j]) = Token(src[lo])
        /\ k = hi \/ Token(src[k + 1]) # Token(src[lo])

\* the tree the bracket structure of src[lo..hi] prescribes
RECURSIVE Tree(_, _, _)
Tree(src, lo, hi) ==
    IF lo > hi THEN <<>>
    ELSE IF src[lo] = "["
    THEN LET j == MatchClose(src, lo)
         IN  <<[token |-> "Loop", count |-> 0,
                body |-> Tree(src, lo + 1, j - 1)]>> \o Tree(src, j + 1, hi)
    ELSE LET k == RunStop(src, lo, hi)
         IN  <<[token |-> Token(src[lo]), count |-> NetCount(src, lo, k),
                body |-> <<>>]>> \o Tree(src, k + 1, hi)

EmptyLoop == [token |-> "Loop", count |-> 0, body |-> <<>>]

\* C7: the tree parse makes of a balanced source mirrors its brackets: one
\* loop node per matched pair, its body the compilation of the symbols
\* between the pair, attached in source order to the innermost enclosing
\* pair; no counted node spans a bracket.
C7_TreeMirrorsBrackets ==
    (pc # "parse" /\ Balanced(program)) =>
        /\ c_tokens = Tree(program, 1, Len(program))
        /\ IsSource(<<"[", "[", "]", "]">>) =>
              c_tokens = <<[EmptyLoop EXCEPT !.body = <<EmptyLoop>>]>>
        /\ IsSource(<<"[", "]", "[", "]">>) =>
              c_tokens = <<EmptyLoop, EmptyLoop>>
        /\ IsSource(<<"+", "[", "+", "]", "+">>) => Len(c_tokens) = 3

\* "+[+]+" is parsed to three nodes, the second a loop of one node
C7_Witness ==
    /\ IsSource(<<"+", "[", "+", "]", "+">>)
    /\ pc = "execute"
    /\ Len(c_tokens) = 3
    /\ c_tokens[2].token = "Loop"
    /\ Len(c_tokens[2].body) = 1

\* C8: stdin with any count c >= 1, when data is left on the input and the
\* current cell exists, reads exactly one unit, stores a character code in
\* the cell and raises nothing.
C8_InputReadsOne ==
    [][(ExecStdIn /\ Node.count >= 1 /\ input # <<>>
           /\ ValidIndex(memory, data_ptr)) =>
          /\ err' = ""
          /\ Len(input') = Len(input) - 1
          /\ memory'[Slot(memory, data_ptr)] \in InputCodes]_vars

\* C9: a loop node reached while the cell at the pointer is 0 starts its
\* body zero times: execution moves past the node and the tape, the
\* pointer, the input and the output are unchanged; "[,]" on a fresh tape
\* never starts a body.
C9_ZeroTripLoop ==
    /\ [][(ExecLoop /\ ValidIndex(memory, data_ptr) /\ Cell = 0) =>
             /\ UNCHANGED <<memory, data_ptr, input, output, body_runs>>
             /\ Len(frames') = Len(frames)
             /\ frames'[Len(frames)].i = Top.i + 1
             /\ pc' = "execute" /\ err' = ""]_vars
    /\ [](IsSource(<<"[", ",", "]">>) => body_runs = 0)

\* "[,]" has finished with input left and no body started
C9_Witness ==
    /\ IsSource(<<"[", ",", "]">>)
    /\ pc = "done"
    /\ Len(input) = MaxInput
    /\ body_runs = 0
    /\ \A k \in 1..Len(memory) : memory[k] = 0

\* the number of '+' the source starts with
LeadingPlus ==
    Cardinality({k \in 1..Len(program) : \A j \in 1..k : program[j] = "+"})

TransferA == LeadingPlus

TransferB == Len(program) - LeadingPlus - 7

\* the source is '+'*a '>' '+'*b '[<+>-]' with a + b < 2^W, on a tape of
\* at least two cells (a tape never shrinks, and one of one cell never
\* grows)
TransferCase ==
    /\ TransferB >= 0
    /\ IsSource(Transfer(TransferA, TransferB))
    /\ TransferA + TransferB < MaxInt(cell_size)
    /\ Len(memory) >= 2

\* C10: on a tape of at least 2 cells, '+'*a '>' '+'*b '[<+>-]' with
\* a + b < 2^W terminates with cell 0 = a + b, cell 1 = 0, the pointer at 1
\* and the loop body run exactly b times; so "++>+++[<+>-]" with W = 8
\* ends with cell 0 = 5.
C10_TransferLoop ==
    /\ [](TransferCase =>
             /\ pc # "error"
             /\ body_runs <= TransferB
             /\ pc = "done" =>
                   /\ memory[1] = TransferA + TransferB
                   /\ memory[2] = 0
                   /\ data_ptr = 1
                   /\ body_runs = TransferB)
    /\ TransferCase ~> pc = "done"

\* "++>+++[<+>-]" with W = 8 has finished with 5 in cell 0
C10_Witness ==
    /\ IsSource(Transfer(2, 3))
    /\ cell_size = 8
    /\ pc = "done"
    /\ memory[1] = 5
    /\ memory[2] = 0
    /\ data_ptr = 1
    /\ body_runs = 3

Untouched ==
    /\ \A k \in 1..Len(memory) : memory[k] = 0
    /\ data_ptr = 0
    /\ output = <<>>
    /\ frames = <<>>
    /\ body_runs = 0

\* C12: parse completes before execute starts: a source with unbalanced
\* brackets never leaves parse but by the error, with the tape all zeros,
\* the pointer 0, nothing written and, as parse reads no input, nothing
\* consumed; execute starts only on a fully scanned source.
C12_CompileBeforeExecute ==
    /\ [](~Balanced(program) => (pc \in {"parse", "error"} /\ Untouched))
    /\ [](pc = "parse" => Untouched)
    /\ [](pc \in {"execute", "done"} =>
             (instr_ptr = Len(program) /\ stack = <<>>))
    /\ [][pc = "parse" => input' = input]_vars
    /\ [][(err # "" /\ err \in SyntaxErrors) => UNCHANGED vars]_vars

\* "+.[" has failed with nothing executed
C12_Witness ==
    /\ IsSource(<<"+", ".", "[">>)
    /\ pc = "error"
    /\ err = "no matching closed bracket"
    /\ Len(c_tokens) = 2
    /\ Untouched

\* C13: stdin with nothing left on the input raises; the run stops there:
\* the tape, the pointer and the output are as before the operation and no
\* step follows an error.
C13_InputExhausted ==
    /\ [][(ExecStdIn /\ input = <<>>) =>
             /\ pc' = "error" /\ err' # ""
             /\ UNCHANGED <<memory, data_ptr, output, frames, input>>]_vars
    /\ [][pc = "error" => UNCHANGED vars]_vars

\* "+," on an empty input has stopped at the ',' with the cell still 1
C13_Witness ==
    /\ IsSource(<<"+", ",">>)
    /\ pc = "error"
    /\ err = "TypeError"
    /\ input = <<>>
    /\ memory[1] = 1
    /\ Top.i = 2

\* C15: every access of a cell (incr, stdout, stdin, the test of a loop)
\* happens with a pointer >= 0, and an incr_ptr that leaves the pointer
\* negative does not change the tape.
C15_NoAccessBeforeStart ==
    /\ [][((ExecIncr \/ ExecStdOut \/ ExecStdIn \/ ExecLoop) /\ err' = "")
             => data_ptr >= 0]_vars
    /\ [][(ExecIncrPtr /\ data_ptr' < 0) => memory' = memory]_vars

\* some ']' of src has no earlier unmatched '['
HasUnmatchedClose(src) == \E k \in 1..Len(src) : Depth(src, k) < 0

\* the position (from 1) of the first such ']'
FirstUnmatchedClose(src) ==
    CHOOSE k \in 1..Len(src) :
        Depth(src, k) < 0 /\ \A j \in 1..(k - 1) : Depth(src, j) >= 0

\* C16: an unmatched ']' is reported with the cursor, the position reported,
\* at the 0-based index of the first unmatched ']', which the cursor never
\* passes; an unmatched '[' is reported with the cursor at the end of the
\* source, and only when there is no unmatched ']'.
C16_ErrorPositions ==
    /\ err = "no matching open bracket" =>
          /\ HasUnmatchedClose(program)
          /\ instr_ptr + 1 = FirstUnmatchedClose(program)
    /\ err = "no matching closed bracket" =>
          /\ instr_ptr = Len(program)
          /\ ~HasUnmatchedClose(program)
    /\ HasUnmatchedClose(program) =>
          /\ instr_ptr < FirstUnmatchedClose(program)
          /\ pc \in {"parse", "error"}
          /\ (pc = "error" => err = "no matching open bracket")

\* "+][" has failed at index 1, the '[' after it not scanned
C16_Witness ==
    /\ IsSource(<<"+", "]", "[">>)
    /\ pc = "error"
    /\ err = "no matching open bracket"
    /\ instr_ptr = 1
    /\ stack = <<>>

\* C17: a loop node is left only on a test that finds the cell 0, its body
\* is started only on a test that finds it nonzero, and the return of a
\* body leads back to the test of the same node with the tape as the body
\* left it; "+[]" never completes.
C17_LoopTest ==
    /\ [][ExecLoop =>
             /\ (frames' = Advance(frames)) =>
                   (ValidIndex(memory, data_ptr) /\ Cell = 0)
             /\ (Len(frames') > Len(frames)) =>
                   /\ ValidIndex(memory, data_ptr) /\ Cell # 0
                   /\ frames' = Append(frames, [c_tokens |-> Node.body, i |-> 1])
             /\ (ValidIndex(memory, data_ptr) /\ Cell = 0) =>
                   frames' = Advance(frames)]_vars
    /\ [][(ExecReturn /\ Len(frames) > 1) =>
             /\ Len(frames') = Len(frames) - 1
             /\ \A k \in 1..Len(frames') : frames'[k] = frames[k]
             /\ frames'[Len(frames')].c_tokens[frames'[Len(frames')].i].token
                   = "Loop"
             /\ pc' = "execute"
             /\ UNCHANGED <<memory, data_ptr>>]_vars
    /\ [](IsSource(<<"+", "[", "]">>) => pc # "done")

\* "+[]" is in its loop after more than one run of the body
C17_Witness ==
    /\ IsSource(<<"+", "[", "]">>)
    /\ pc = "execute"
    /\ body_runs >= 2
    /\ Len(frames) = 1
    /\ memory[1] = 1

\* C18: the pointer is changed by incr_ptr only; incr and stdin change at
\* most the cell at the pointer; stdout, the test of a loop and the return
\* of a call change neither tape nor pointer; incr_ptr changes no existing
\* cell; the compiled tree is not modified while it is executed.
C18_FrameEffects ==
    [][/\ (data_ptr' # data_ptr) => ExecIncrPtr
       /\ (ExecIncr \/ ExecStdIn) =>
             /\ Len(memory') = Len(memory)
             /\ \A k \in 1..Len(memory) :
                   k # Slot(memory, data_ptr) => memory'[k] = memory[k]
       /\ (ExecStdOut \/ ExecLoop \/ ExecReturn) => memory' = memory
       /\ ExecIncrPtr =>
             /\ Len(memory') >= Len(memory)
             /\ \A k \in 1..Len(memory) : memory'[k] = memory[k]
       /\ (pc = "execute") =>
             /\ c_tokens' = c_tokens
             /\ frames[1].c_tokens = c_tokens
             /\ \A k \in 1..Min(Len(frames), Len(frames')) :
                   frames'[k].c_tokens = frames[k].c_tokens
      ]_vars

\* "+[>+]" on a tape grown to 4 cells, the cells written still 1
C18_Witness ==
    /\ IsSource(<<"+", "[", ">", "+", "]">>)
    /\ pc = "execute"
    /\ Len(memory) = 4
    /\ data_ptr = 3
    /\ memory[1] = 1 /\ memory[2] = 1 /\ memory[3] = 1

\* C19: the length of the tape never decreases and changes only in an
\* incr_ptr that leaves the pointer at the length len; that step appends
\* floor(len / 2) cells, all 0, and keeps the cells it had in place.
C19_TapeLength ==
    [][/\ Len(memory') >= Len(memory)
       /\ (Len(memory') # Len(memory)) =>
             (ExecIncrPtr /\ data_ptr' = Len(memory))
       /\ (ExecIncrPtr /\ data_ptr' = Len(memory)) =>
             LET added == Len(memory') - Len(memory)
             IN  /\ 2 * added <= Len(memory)
                 /\ Len(memory) < 2 * added + 2
                 /\ \A k \in 1..Len(memory') :
                       memory'[k] = IF k <= Len(memory) THEN memory[k] ELSE 0
      ]_vars

\* "+>>" on a tape of 2 cells has grown it to 3, the 1 still in cell 0
C19_Witness ==
    /\ IsSource(<<"+", ">", ">">>)
    /\ pc = "done"
    /\ memory = <<1, 0, 0>>
    /\ data_ptr = 2

\* C20: parse terminates on every source: every iteration that does not
\* raise moves the cursor forward, over one bracket or over exactly one
\* whole run of one operation kind, never beyond the end, so that every
\* character is consumed once; when parse succeeds the cursor is at the end
\* of the source and the stack is empty.
C20_ParseTerminates ==
    /\ [][(pc = "parse" /\ pc' = "parse") =>
             /\ instr_ptr' > instr_ptr
             /\ instr_ptr' <= Len(program)
             /\ instr_ptr' =
                   IF program[instr_ptr + 1] \in {"[", "]"}
                   THEN instr_ptr + 1
                   ELSE RunStop(program, instr_ptr + 1, Len(program))]_vars
    /\ [][(pc = "parse" /\ pc' # "parse") => instr_ptr' = instr_ptr]_vars
    /\ [](pc = "execute" => (instr_ptr = Len(program) /\ stack = <<>>))
    /\ (pc = "parse") ~> (pc \in {"execute", "error"})

\* "+-." is parsed: two nodes, the cursor at the end, the stack empty
C20_Witness ==
    /\ IsSource(<<"+", "-", ".">>)
    /\ pc = "execute"
    /\ instr_ptr = 3
    /\ stack = <<>>
    /\ Len(c_tokens) = 2

\* the '[' that the ']' at position j of a balanced source closes
MatchOpen(src, j) ==
    CHOOSE i \in 1..(j - 1) : src[i] = "[" /\ MatchClose(src, i) = j

\* execute() on the source with one node of count +1 or -1 per symbol and
\* the loops as written: one step, at the symbol u.ip of src
UnitStep(src, c_size, u) ==
    LET ch   == src[u.ip]
        ok   == ValidIndex(u.memory, u.data_ptr)
        s    == Slot(u.memory, u.data_ptr)
        next == [u EXCEPT !.ip = @ + 1]
    IN  CASE Token(ch) = "IncrPtr" ->
               [next EXCEPT !.data_ptr = u.data_ptr + Sign(ch),
                            !.memory = Grow(u.memory, u.data_ptr + Sign(ch))]
          [] Token(ch) = "Incr" ->
               IF ~ok THEN [u EXCEPT !.err = "IndexError"]
               ELSE [next EXCEPT !.memory[s] = IncrValue(@, Sign(ch), c_size)]
          [] Token(ch) = "StdOut" ->
               IF ~ok THEN [u EXCEPT !.err = "IndexError"]
               ELSE [next EXCEPT
                        !.output = @ \o Written(u.memory, u.data_ptr, 1)]
          [] Token(ch) = "StdIn" ->
               LET n    == ReadLen(u.input, 1)
                   rest == SubSeq(u.input, n + 1, Len(u.input))
               IN  IF ~OrdDefined(n)
                   THEN [u EXCEPT !.input = rest, !.err = "TypeError"]
                   ELSE IF ~ok
                   THEN [u EXCEPT !.input = rest, !.err = "IndexError"]
                   ELSE [next EXCEPT !.input = rest,
                                     !.memory[s] = Ord(u.input)]
          [] Token(ch) = "LoopStart" ->
               IF ~ok THEN [u EXCEPT !.err = "IndexError"]
               ELSE IF LoopCond(u.memory[s]) THEN next
               ELSE [u EXCEPT !.ip = MatchClose(src, u.ip) + 1]
          [] Token(ch) = "LoopEnd" ->
               [u EXCEPT !.ip = MatchOpen(src, u.ip)]

UnitOver(src, u) == u.err # "" \/ u.ip > Len(src)

RECURSIVE UnitRun(_, _, _, _)
UnitRun(src, c_size, u, fuel) ==
    IF fuel = 0 \/ UnitOver(src, u) THEN u
    ELSE UnitRun(src, c_size, UnitStep(src, c_size, u), fuel - 1)

UnitStart ==
    [memory |-> Zeros(init_size), data_ptr |-> 0, input |-> init_input,
     output |-> <<>>, ip |-> 1, err |-> ""]

\* C14: when the run of the folded tree is over, the run of the same source
\* with one node per symbol, if it is over within MaxFuel steps, has ended
\* with the same tape, pointer, output, input left and error.
C14_FoldPreservesBehaviour ==
    (pc \in {"done", "error"} /\ err \notin SyntaxErrors) =>
        LET u == UnitRun(program, cell_size, UnitStart, MaxFuel)
        IN  UnitOver(program, u) =>
               /\ u.memory = memory
               /\ u.data_ptr = data_ptr
               /\ u.output = output
               /\ u.input = input
               /\ u.err = err

====
